---- MODULE Spec2Model ----
(***************************************************************************)
(* A model of main_ideas.py: the harvesting run of main(), the pagination  *)
(* prober fetch_canonical_ids_smart(), the identifier extractor, the       *)
(* deduplicator, the batch loop and the flattener.                         *)
(*                                                                         *)
(* JSON values are tagged records:                                         *)
(*   null  [t |-> "null"]            string [t |-> "str",  s |-> "abc"]   *)
(*   number [t |-> "num", n |-> 1]   bool   [t |-> "bool", b |-> TRUE]    *)
(*   list  [t |-> "list", items |-> <<v1, v2>>]                            *)
(*   dict  [t |-> "dict", keys |-> <<"a", "b">>, vals |-> <<v1, v2>>]      *)
(* A dict keeps its insertion order, as a Python dict does.                *)
(***************************************************************************)
EXTENDS Integers, Sequences, FiniteSets, TLC

(***************************************************************************)
(* The CONFIG section of main_ideas.py.  The limits keep the order and the *)
(* divisibility of the source's values (1000 < 2000 < 5000 < 20000, the    *)
(* cap a whole number of pages above the probe limit) at a size TLC can    *)
(* enumerate: PAGINATION_LIMIT 1000 -> 2, MAX_SINGLE_LIMIT 2000 -> 3,      *)
(* the last-resort ceiling 5000 -> 5, SAFE_TOTAL_CAP 20000 -> 9,           *)
(* BATCH_SIZE 100 -> 2.                                                    *)
(***************************************************************************)
MAX_SINGLE_LIMIT == 3

PAGINATION_LIMIT == 2

SAFE_TOTAL_CAP == 9

BATCH_SIZE == 2

\* the literal 5000 of line 270
LAST_RESORT_CEILING == 5

(***************************************************************************)
(* Bounds of the model.                                                    *)
(***************************************************************************)
\* how many distinct canonical ids the server holds
NumIds == 3

\* the most identifiers the server puts into one search response
MaxResp == 4

\* the most identifiers the batch loop is started with on its own
MaxTargets == 5

\* the longest list the deduplicator is applied to on its own
MaxSeq == 4

\* the most records the flattener is applied to on its own
MaxRecords == 3

Min(a, b) == IF a <= b THEN a ELSE b

----------------------------------------------------------------------------
(* JSON values and the Python operations the code applies to them *)

JNull == [t |-> "null"]

JStr(s) == [t |-> "str", s |-> s]

JNum(n) == [t |-> "num", n |-> n]

JBool(b) == [t |-> "bool", b |-> b]

JList(items) == [t |-> "list", items |-> items]

JDict(keys, vals) == [t |-> "dict", keys |-> keys, vals |-> vals]

EmptyDict == JDict(<<>>, <<>>)

\* isinstance(v, dict), isinstance(v, list), isinstance(v, str)
IsDict(v) == v.t = "dict"

IsList(v) == v.t = "list"

IsStr(v) == v.t = "str"

\* k in d
HasKey(d, k) == \E i \in 1..Len(d.keys) : d.keys[i] = k

\* d.get(k, default)
Get(d, k, default) ==
    IF HasKey(d, k)
    THEN d.vals[CHOOSE i \in 1..Len(d.keys) : d.keys[i] = k]
    ELSE default

\* str.strip() on the strings of the model: the whitespace-only strings
\* strip to the empty string, the others carry no outer whitespace
Strip(s) == IF s \in {" ", "  "} THEN "" ELSE s

\* bool(v): None, "", 0, False, [] and {} are falsy
Truthy(v) ==
    CASE v.t = "null" -> FALSE
      [] v.t = "str"  -> v.s /= ""
      [] v.t = "num"  -> v.n /= 0
      [] v.t = "bool" -> v.b
      [] v.t = "list" -> v.items /= <<>>
      [] v.t = "dict" -> v.keys /= <<>>

\* a or b
PyOr(a, b) == IF Truthy(a) THEN a ELSE b

----------------------------------------------------------------------------
(* extract_canonical_ids_from_search_response, lines 120-148 *)

\* the result of a call: the returned list, or an uncaught exception
Returned(out) == [raised |-> FALSE, out |-> out]

Raised == [raised |-> TRUE, out |-> <<>>]

\* lines 131-132 and 146-147: if isinstance(val, str) and val.strip(): out.append(val)
AppendIfId(out, val) ==
    IF IsStr(val) /\ Strip(val.s) /= "" THEN Append(out, val.s) ELSE out

\* line 130: the identifier of one element of a top-level list
TopLevelVal(el) ==
    PyOr(PyOr(Get(el, "ticketCanonicalId", JNull), Get(el, "canonicalId", JNull)),
         Get(el, "id", JNull))

\* lines 128-132: the loop over a top-level list
RECURSIVE ExtractFromList(_, _)
ExtractFromList(els, out) ==
    IF els = <<>> THEN out
    ELSE ExtractFromList(Tail(els),
             IF IsDict(Head(els)) THEN AppendIfId(out, TopLevelVal(Head(els)))
             ELSE out)

\* line 143: it.get("_source", {}).get(...) raises AttributeError when the
\* value under "_source" is not a dict (None, a string, a number, a list)
SourceRaises(it) == ~IsDict(Get(it, "_source", EmptyDict))

\* lines 143-145: the identifier of one hit
HitVal(it) ==
    LET src == Get(it, "_source", EmptyDict)
        val == PyOr(Get(src, "ticketCanonicalId", JNull), Get(src, "canonicalId", JNull))
    IN  IF Truthy(val) THEN val
        ELSE PyOr(Get(it, "ticketCanonicalId", JNull), Get(it, "canonicalId", JNull))

\* lines 140-147: the loop over hits.hits
RECURSIVE ExtractFromHits(_, _)
ExtractFromHits(hits, out) ==
    IF hits = <<>> THEN Returned(out)
    ELSE IF ~IsDict(Head(hits)) THEN ExtractFromHits(Tail(hits), out)
    ELSE IF SourceRaises(Head(hits)) THEN Raised
    ELSE ExtractFromHits(Tail(hits), AppendIfId(out, HitVal(Head(hits))))

extract_canonical_ids_from_search_response(resp_json) ==
    IF IsList(resp_json) THEN Returned(ExtractFromList(resp_json.items, <<>>))
    ELSE IF IsDict(resp_json) THEN
        LET maybe_hits == Get(resp_json, "hits", JNull) IN
        IF IsDict(maybe_hits) THEN
            LET inner == Get(maybe_hits, "hits", JNull) IN
            IF IsList(inner) THEN ExtractFromHits(inner.items, <<>>)
            ELSE Returned(<<>>)
        ELSE Returned(<<>>)
    ELSE Returned(<<>>)

----------------------------------------------------------------------------
(* dedupe_preserve_order, lines 150-157 *)

\* a variant that keeps each identifier at its last occurrence
RECURSIVE dedupe_keeping_last(_)
dedupe_keeping_last(seq) ==
    IF seq = <<>> THEN <<>>
    ELSE IF \E i \in 2..Len(seq) : seq[i] = Head(seq) THEN dedupe_keeping_last(Tail(seq))
    ELSE <<Head(seq)>> \o dedupe_keeping_last(Tail(seq))

\* a variant that compares with the latest kept identifier only
RECURSIVE DedupeLoop_adjacent_only(_, _, _)
DedupeLoop_adjacent_only(seq, seen, out) ==
    IF seq = <<>> THEN out
    ELSE IF out /= <<>> /\ Head(seq) = out[Len(out)]
         THEN DedupeLoop_adjacent_only(Tail(seq), seen, out)
    ELSE DedupeLoop_adjacent_only(Tail(seq), seen, Append(out, Head(seq)))

RECURSIVE DedupeLoop(_, _, _)
DedupeLoop(seq, seen, out) ==
    IF seq = <<>> THEN out
    ELSE IF Head(seq) \in seen THEN DedupeLoop(Tail(seq), seen, out)
    ELSE DedupeLoop(Tail(seq), seen \cup {Head(seq)}, Append(out, Head(seq)))

dedupe_preserve_order(seq) == DedupeLoop(seq, {}, <<>>)

----------------------------------------------------------------------------
(* chunked_iterable, lines 60-66: list(islice(it, size)) takes the next    *)
(* `size` items, or what is left, advancing the iterator `it` (the number  *)
(* of items already consumed).                                             *)

\* a variant that yields full chunks only
islice_full_chunks_only(iterable, it, size) ==
    IF it + size <= Len(iterable) THEN SubSeq(iterable, it + 1, it + size) ELSE <<>>

islice(iterable, it, size) ==
    SubSeq(iterable, it + 1, Min(it + size, Len(iterable)))

----------------------------------------------------------------------------
(* The two endpoints, as the run sees them.  A response is what try_post   *)
(* (lines 112-118) hands back: None after a transport error, else a status *)
(* code and a body that resp.json() parses or not.                         *)

IdName == <<"kb-1", "kb-2", "kb-3", "kb-4", "kb-5", "kb-6">>

Ids == {IdName[i] : i \in 1..NumIds}

\* k consecutive identifiers of the server's data, from position o + 1 on,
\* wrapping around: a response longer than the data repeats identifiers
Window(o, k) == [i \in 1..k |-> IdName[((o + i - 1) % NumIds) + 1]]

Windows == {Window(o, k) : o \in 0..(NumIds - 1), k \in 0..MaxResp}

\* k entries of one ticket: the search is over attachments, and a ticket with
\* several attachments is listed once for each
Repeats == {[i \in 1..k |-> IdName[o + 1]] : o \in 0..(NumIds - 1), k \in 2..MaxResp}

\* the documented shape (line 124): [{"ticketCanonicalId": ..., "index": "ticket"}, ...]
ListEnvelope(ids) ==
    JList([i \in 1..Len(ids) |->
              JDict(<<"ticketCanonicalId", "index">>, <<JStr(ids[i]), JStr("ticket")>>)])

\* a syntactically valid body in neither envelope
UnrelatedBody == JDict(<<"message">>, <<JStr("ok")>>)

\* a hits container whose hit carries "_source": null
NullSourceBody ==
    JDict(<<"hits">>, <<JDict(<<"hits">>, <<JList(<<JDict(<<"_source">>, <<JNull>>)>>)>>)>>)

SearchBodies ==
    {ListEnvelope(w) : w \in Windows \cup Repeats} \cup {UnrelatedBody, NullSourceBody}

NoResponse == [none |-> TRUE, status_code |-> 0, parses |-> FALSE, body |-> JNull]

Http(status, parses, body) ==
    [none |-> FALSE, status_code |-> status, parses |-> parses, body |-> body]

SearchResponses ==
    {NoResponse, Http(401, FALSE, JNull), Http(500, FALSE, JNull), Http(200, FALSE, JNull)}
        \cup {Http(200, TRUE, b) : b \in SearchBodies}

\* the full record of one identifier, as the batch endpoint returns it
Idea(id) ==
    CASE id = "kb-1" -> JDict(<<"id", "meta">>,
                              <<JStr(id), JDict(<<"x">>, <<JNum(1)>>)>>)
      [] id = "kb-2" -> JDict(<<"id", "tags">>,
                              <<JStr(id), JList(<<JStr("p"), JStr("q")>>)>>)
      [] OTHER       -> JDict(<<"title", "id", "history">>,
                              <<JStr("t"), JStr(id),
                                JList(<<JDict(<<"by">>, <<JStr("u")>>)>>)>>)

\* {"0": idea, "1": idea, ...}: a mapping from internal keys to records
MappingBody(targets) ==
    JDict([i \in 1..Len(targets) |-> IdName[i]],
          [i \in 1..Len(targets) |-> Idea(targets[i])])

\* [idea, null, idea, ...]: a sequence of records with a non-record entry
\* after the first
SequenceBody(targets) ==
    JList(<<Idea(targets[1]), JNull>> \o [i \in 1..(Len(targets) - 1) |-> Idea(targets[i + 1])])

BatchBodies(targets) ==
    {MappingBody(targets), SequenceBody(targets), EmptyDict, JStr("maintenance")}

BatchResponses(targets) ==
    {NoResponse, Http(401, FALSE, JNull), Http(500, FALSE, JNull), Http(200, FALSE, JNull)}
        \cup {Http(200, TRUE, b) : b \in BatchBodies(targets)}

----------------------------------------------------------------------------
(* The candidate pagination conventions, in the order the nested loops of  *)
(* lines 198-199 and 238-239 visit them.                                   *)

offset_keys == <<"offset", "start", "from">>

size_keys == <<"size", "limit">>

start_pages == <<0, 1>>

\* a variant that visits the page-based conventions first
Conventions_pages_first ==
    [i \in 1..(Len(size_keys) * Len(start_pages)) |->
        [kind |-> "page", pageKey |-> "page",
         sizeKey |-> size_keys[((i - 1) \div Len(start_pages)) + 1],
         start_page |-> start_pages[((i - 1) % Len(start_pages)) + 1]]]
    \o
    [i \in 1..Len(offset_keys) |->
        [kind |-> "offset", pageKey |-> offset_keys[i], sizeKey |-> "limit", start_page |-> 0]]

Conventions ==
    [i \in 1..Len(offset_keys) |->
        [kind |-> "offset", pageKey |-> offset_keys[i], sizeKey |-> "limit", start_page |-> 0]]
    \o
    [i \in 1..(Len(size_keys) * Len(start_pages)) |->
        [kind |-> "page", pageKey |-> "page",
         sizeKey |-> size_keys[((i - 1) \div Len(start_pages)) + 1],
         start_page |-> start_pages[((i - 1) % Len(start_pages)) + 1]]]

\* line 270
LAST_RESORT_LIMIT == Min(LAST_RESORT_CEILING, SAFE_TOTAL_CAP)

\* the configured credential: unset, the placeholder, or a token
Tokens == {"", "eyJYOUR_TOKEN", "eyJraWQi"}

\* line 291: not TOKEN or TOKEN.startswith("eyJYOUR")
TokenMissing(token) == token = "" \/ token = "eyJYOUR_TOKEN"

----------------------------------------------------------------------------
(* flatten_dict and normalize_ideas, lines 68-110.  A Python dict under    *)
(* construction is a JSON dict value: assignment to a key that exists      *)
(* replaces its value in place, a new key goes to the end.                 *)

\* out[k] = v
Put(d, k, v) ==
    IF HasKey(d, k)
    THEN JDict(d.keys, [i \in 1..Len(d.keys) |-> IF d.keys[i] = k THEN v ELSE d.vals[i]])
    ELSE JDict(Append(d.keys, k), Append(d.vals, v))

\* out.update(e)
RECURSIVE UpdateFrom(_, _, _)
UpdateFrom(d, e, i) ==
    IF i > Len(e.keys) THEN d
    ELSE UpdateFrom(Put(d, e.keys[i], e.vals[i]), e, i + 1)

Update(d, e) == UpdateFrom(d, e, 1)

\* line 71: key = f"{parent}.{k}" if parent else k
ChildKey(parent, k) == IF parent /= "" THEN parent \o "." \o k ELSE k

\* lines 68-76
RECURSIVE FlattenFrom(_, _, _, _)
FlattenFrom(d, parent, i, out) ==
    IF i > Len(d.keys) THEN out
    ELSE LET key == ChildKey(parent, d.keys[i])
             v == d.vals[i]
         IN  FlattenFrom(d, parent, i + 1,
                 IF IsDict(v) THEN Update(out, FlattenFrom(v, key, 1, EmptyDict))
                 ELSE Put(out, key, v))

flatten_dict(d, parent) == FlattenFrom(d, parent, 1, EmptyDict)

\* sep.join(parts)
RECURSIVE Join(_, _)
Join(parts, sep) ==
    IF parts = <<>> THEN ""
    ELSE IF Len(parts) = 1 THEN parts[1]
    ELSE parts[1] \o sep \o Join(Tail(parts), sep)

\* str(x) of a scalar
PyStr(v) ==
    CASE v.t = "null" -> "None"
      [] v.t = "str"  -> v.s
      [] v.t = "num"  -> ToString(v.n)
      [] v.t = "bool" -> IF v.b THEN "True" ELSE "False"

\* json.dumps(v, ensure_ascii=False), with its default separators
RECURSIVE Dumps(_)
Dumps(v) ==
    CASE v.t = "null" -> "null"
      [] v.t = "str"  -> "\"" \o v.s \o "\""
      [] v.t = "num"  -> ToString(v.n)
      [] v.t = "bool" -> IF v.b THEN "true" ELSE "false"
      [] v.t = "list" -> "[" \o Join([i \in 1..Len(v.items) |-> Dumps(v.items[i])], ", ") \o "]"
      [] v.t = "dict" -> "{" \o Join([i \in 1..Len(v.keys) |->
                                         "\"" \o v.keys[i] \o "\": " \o Dumps(v.vals[i])], ", ")
                             \o "}"

\* lines 93-99: the cell of a list
ListCell(v) ==
    IF \A i \in 1..Len(v.items) : ~IsDict(v.items[i]) /\ ~IsList(v.items[i])
    THEN JStr(Join([i \in 1..Len(v.items) |-> PyStr(v.items[i])], ", "))
    ELSE JStr(Dumps(v))

\* lines 88-101: the flat row of one idea
RECURSIVE FlatFrom(_, _, _)
FlatFrom(idea, i, flat) ==
    IF i > Len(idea.keys) THEN flat
    ELSE LET k == idea.keys[i]
             v == idea.vals[i]
         IN  FlatFrom(idea, i + 1,
                 IF IsDict(v) THEN Update(flat, flatten_dict(v, k))
                 ELSE IF IsList(v) THEN Put(flat, k, ListCell(v))
                 ELSE Put(flat, k, v))

Flat(idea) == FlatFrom(idea, 1, EmptyDict)

\* line 105
preferred == <<"id", "canonicalId", "title", "status", "type", "createdDate", "creator">>

\* the column names the model's records can produce, in the order Python
\* compares strings (code point by code point)
Lexicographic ==
    <<"canonicalId", "createdDate", "creator", "creator.name", "history", "id",
      "meta.a.b", "meta.tags", "meta.x", "status", "tags", "title", "type">>

Rank(k) == CHOOSE i \in 1..Len(Lexicographic) : Lexicographic[i] = k

\* sorted(S) for a set S of column names
RECURSIVE Sorted(_)
Sorted(S) ==
    IF S = {} THEN <<>>
    ELSE LET least == CHOOSE k \in S : \A other \in S : Rank(k) <= Rank(other)
         IN  <<least>> \o Sorted(S \ {least})

InSeq(x, seq) == \E i \in 1..Len(seq) : seq[i] = x

\* a variant that sorts all the names
Ordered_all_sorted(keys) == Sorted(keys)

\* lines 106-107
Ordered(keys) ==
    SelectSeq(preferred, LAMBDA k : k \in keys)
        \o Sorted({k \in keys : ~InSeq(k, preferred)})

\* line 109: {k: r.get(k, "") for k in ordered}
Reindexed(r, ordered) ==
    JDict(ordered, [i \in 1..Len(ordered) |-> Get(r, ordered[i], JStr(""))])

\* pd.DataFrame(list of dicts): the columns are the keys in the order they
\* first appear, one row per dict
RECURSIVE KeysOfAll(_)
KeysOfAll(dicts) ==
    IF dicts = <<>> THEN <<>> ELSE Head(dicts).keys \o KeysOfAll(Tail(dicts))

DataFrame(dicts) ==
    [columns |-> dedupe_preserve_order(KeysOfAll(dicts)), rows |-> dicts]

\* lines 78-110
normalize_ideas(ideas) ==
    LET rows == [i \in 1..Len(ideas) |-> Flat(ideas[i])]
        keys == UNION {{rows[i].keys[j] : j \in 1..Len(rows[i].keys)} : i \in 1..Len(rows)}
        ordered == Ordered(keys)
    IN  DataFrame([i \in 1..Len(rows) |-> Reindexed(rows[i], ordered)])

----------------------------------------------------------------------------
(* The state of one run *)

VARIABLES
    TOKEN,          \* the configured credential (line 33)
    pc,             \* where the run is: "main", "probe", "paginate", "last_resort",
                    \* "returned", "batch", "exited", "crashed"
    exitCode,       \* the process's exit status once pc is "exited" or "crashed"
    printed,        \* the diagnostics printed so far (those the model tracks)
    requests,       \* every search request issued so far, in order
    resp,           \* the response to the latest request (resp, resp_page, resp_last)
    data,           \* fetch_canonical_ids_smart: the parsed body of the first probe
    first_batch,    \* fetch_canonical_ids_smart: the identifiers of the first probe
    collected,      \* fetch_canonical_ids_smart: the accepted identifiers
    items,          \* fetch_canonical_ids_smart: the running pagination loop's list
    conv,           \* the pagination convention being tried (index into Conventions)
    cursor,         \* the running loop's offset or page
    heard,          \* the responses the latest pagination loop (or the last resort)
                    \* received, each with the convention that asked for it
    canonical_ids,  \* main: what fetch_canonical_ids_smart returned
    it,             \* chunked_iterable: how many identifiers the iterator consumed
    all_ideas,      \* main: the records collected so far
    batchReqs,      \* the "targets" of every batch-fetch request issued, in order
    batchResps,     \* the parsed bodies of the batch responses, in order
    df,             \* main: the table normalize_ideas built
    written         \* the files written (CSV_OUTPUT, XLSX_OUTPUT)

proberVars == <<data, first_batch, collected, items, conv, cursor, heard>>

batchVars == <<it, all_ideas, batchReqs, batchResps, df, written>>

vars == <<TOKEN, pc, exitCode, printed, requests, resp, data, first_batch, collected,
          items, conv, cursor, heard, canonical_ids, it, all_ideas, batchReqs,
          batchResps, df, written>>

\* a value for a local that holds nothing yet
NoTable == [columns |-> <<>>, rows |-> <<>>]

Init ==
    /\ TOKEN \in Tokens
    /\ pc = "main"
    /\ exitCode = 0
    /\ printed = {}
    /\ requests = <<>>
    /\ resp = NoResponse
    /\ data = JNull
    /\ first_batch = <<>>
    /\ collected = <<>>
    /\ items = <<>>
    /\ conv = 0
    /\ cursor = 0
    /\ heard = <<>>
    /\ canonical_ids = <<>>
    /\ it = 0
    /\ all_ideas = <<>>
    /\ batchReqs = <<>>
    /\ batchResps = <<>>
    /\ df = NoTable
    /\ written = {}

\* sys.exit(code)
Exit(code) == pc' = "exited" /\ exitCode' = code

\* an exception nobody catches: the interpreter prints the traceback and
\* ends with status 1
Crash == pc' = "crashed" /\ exitCode' = 1

\* the JSON body of one search request, as far as the run varies it
SearchRequest(site, pageKey, sizeKey, size, at) ==
    [site |-> site, pageKey |-> pageKey, sizeKey |-> sizeKey, size |-> size, at |-> at]

\* lines 290-293 and 295-317: the credential check, the session, the base payload
Main ==
    /\ pc = "main"
    /\ IF TokenMissing(TOKEN) THEN Exit(1) ELSE pc' = "probe" /\ UNCHANGED exitCode
    /\ UNCHANGED <<TOKEN, printed, requests, resp, proberVars, canonical_ids, batchVars>>

\* lines 201-202 and 240-241: the state a pagination loop starts from
StartCursor(c, first) ==
    IF Conventions[c].kind = "offset" THEN Len(first) ELSE Conventions[c].start_page

\* a variant that returns the list as collected
Return_as_collected(result, msgs) ==
    /\ pc' = "returned"
    /\ canonical_ids' = result
    /\ printed' = printed \cup msgs
    /\ UNCHANGED exitCode

\* return dedupe_preserve_order(collected), with the diagnostics printed on the way
Return(result, msgs) ==
    /\ pc' = "returned"
    /\ canonical_ids' = dedupe_preserve_order(result)
    /\ printed' = printed \cup msgs
    /\ UNCHANGED exitCode

\* a variant without the 401 branch of lines 172-174
ProbeExitCode_without_401(r) ==
    IF r.none THEN 2
    ELSE IF r.status_code /= 200 THEN 4
    ELSE IF ~r.parses THEN 5
    ELSE 0

\* lines 170-183: the exit status a first-probe response ends the run with,
\* 0 when the run goes on
ProbeExitCode(r) ==
    IF r.none THEN 2
    ELSE IF r.status_code = 401 THEN 3
    ELSE IF r.status_code /= 200 THEN 4
    ELSE IF ~r.parses THEN 5
    ELSE 0

\* a variant that compares with the page size
ProbeIsComplete_by_page_size(first) == Len(first) < PAGINATION_LIMIT

\* line 190: if len(first_batch) < MAX_SINGLE_LIMIT
ProbeIsComplete(first) == Len(first) < MAX_SINGLE_LIMIT

\* lines 164-202: the first probe
FirstProbe ==
    /\ pc = "probe"
    /\ \E r \in SearchResponses :
        /\ resp' = r
        /\ requests' = Append(requests,
                              SearchRequest("probe", "", "limit", MAX_SINGLE_LIMIT, 0))
        /\ IF ProbeExitCode(r) /= 0 THEN
                /\ Exit(ProbeExitCode(r))
                /\ UNCHANGED <<printed, proberVars, canonical_ids>>
           ELSE LET ex == extract_canonical_ids_from_search_response(r.body) IN
                IF ex.raised THEN
                    /\ Crash
                    /\ data' = r.body
                    /\ UNCHANGED <<printed, first_batch, collected, items, conv, cursor,
                                   heard, canonical_ids>>
                ELSE
                    /\ data' = r.body
                    /\ first_batch' = ex.out
                    /\ collected' = ex.out
                    /\ IF ProbeIsComplete(ex.out) THEN
                            /\ Return(ex.out, {"assuming_complete"})
                            /\ UNCHANGED <<items, conv, cursor, heard>>
                       ELSE
                            /\ pc' = "paginate"
                            /\ conv' = 1
                            /\ items' = ex.out
                            /\ cursor' = StartCursor(1, ex.out)
                            /\ heard' = <<>>
                            /\ UNCHANGED <<exitCode, printed, canonical_ids>>
    /\ UNCHANGED <<TOKEN, batchVars>>

\* lines 229 and 264: if len(items) > len(collected)
Accepted(its, coll) == Len(its) > Len(coll)

\* a variant that stops one page later
CapReached_a_page_late(its) == Len(its) >= SAFE_TOTAL_CAP + PAGINATION_LIMIT

\* lines 204 and 243: if len(items) >= SAFE_TOTAL_CAP
CapReached(its) == Len(its) >= SAFE_TOTAL_CAP

\* lines 211-218 and 250-255: the page request failed (transport, status, body)
PageFailed(r) == r.none \/ r.status_code /= 200 \/ ~r.parses

\* lines 229-234 and 264-267, then the next turn of the for loops: what
\* follows the end of a pagination loop that leaves `its` in items
AfterLoop(its, msgs) ==
    IF Accepted(its, collected) THEN
        /\ collected' = its
        /\ items' = its
        /\ Return(its, msgs)
        /\ UNCHANGED <<conv, cursor>>
    ELSE IF conv < Len(Conventions) THEN
        /\ conv' = conv + 1
        /\ items' = collected
        /\ cursor' = StartCursor(conv + 1, first_batch)
        /\ printed' = printed \cup msgs
        /\ UNCHANGED <<pc, exitCode, collected, canonical_ids>>
    ELSE
        /\ pc' = "last_resort"
        /\ items' = its
        /\ printed' = printed \cup msgs
        /\ UNCHANGED <<exitCode, collected, conv, cursor, canonical_ids>>

\* the responses of the loop in progress: a loop that starts (items is still
\* the copy of collected, lines 201 and 240) has received none
HeardSoFar == IF items = collected THEN <<>> ELSE heard

Heard(r) == Append(HeardSoFar, [conv |-> conv, resp |-> r])

\* lines 228 and 263: offset += len(page_ids), page += 1
NextCursor(kind, at, page_ids) ==
    IF kind = "offset" THEN at + Len(page_ids) ELSE at + 1

\* lines 203-228 and 242-263: one turn of a pagination loop's while True
PaginationTurn(kind) ==
    /\ pc = "paginate"
    /\ Conventions[conv].kind = kind
    /\ IF CapReached(items) THEN
            /\ AfterLoop(items, {"reached_safe_cap"})
            /\ heard' = HeardSoFar
            /\ UNCHANGED <<resp, requests>>
       ELSE \E r \in SearchResponses :
            /\ resp' = r
            /\ requests' = Append(requests,
                    SearchRequest("page", Conventions[conv].pageKey,
                                  Conventions[conv].sizeKey, PAGINATION_LIMIT, cursor))
            /\ IF PageFailed(r) THEN
                    /\ AfterLoop(items, {})
                    /\ heard' = Heard(r)
               ELSE LET ex == extract_canonical_ids_from_search_response(r.body) IN
                    IF ex.raised THEN
                        /\ Crash
                        /\ heard' = Heard(r)
                        /\ UNCHANGED <<printed, collected, items, conv, cursor,
                                       canonical_ids>>
                    ELSE IF ex.out = <<>> THEN
                        /\ AfterLoop(items, {})
                        /\ heard' = Heard(r)
                    ELSE IF Len(ex.out) < PAGINATION_LIMIT THEN
                        /\ AfterLoop(items \o ex.out, {})
                        /\ heard' = Heard(r)
                    ELSE
                        /\ items' = items \o ex.out
                        /\ cursor' = NextCursor(kind, cursor, ex.out)
                        /\ heard' = Heard(r)
                        /\ UNCHANGED <<pc, exitCode, printed, collected, conv,
                                       canonical_ids>>
    /\ UNCHANGED <<TOKEN, data, first_batch, batchVars>>

\* lines 197-234: strategy A, offset-like keys
OffsetPagination == PaginationTurn("offset")

\* lines 236-267: strategy B, page + size
PagePagination == PaginationTurn("page")

\* a variant that takes any last-resort response with identifiers
LastResortUsable_any_identifiers(r, coll) ==
    /\ ~r.none
    /\ r.status_code = 200
    /\ r.parses
    /\ ~extract_canonical_ids_from_search_response(r.body).raised
    /\ extract_canonical_ids_from_search_response(r.body).out /= <<>>

\* a variant that takes a last-resort response of the same length
LastResortUsable_same_length(r, coll) ==
    /\ ~r.none
    /\ r.status_code = 200
    /\ r.parses
    /\ ~extract_canonical_ids_from_search_response(r.body).raised
    /\ Len(extract_canonical_ids_from_search_response(r.body).out) >= Len(coll)

\* lines 276-280: the last-resort response replaces what was collected;
\* an exception inside the try (the body, the extractor) is swallowed
LastResortUsable(r, coll) ==
    /\ ~r.none
    /\ r.status_code = 200
    /\ r.parses
    /\ ~extract_canonical_ids_from_search_response(r.body).raised
    /\ Len(extract_canonical_ids_from_search_response(r.body).out) > Len(coll)

\* lines 269-288: the larger single request, then the exhausted return
LastResort ==
    /\ pc = "last_resort"
    /\ IF LAST_RESORT_LIMIT > MAX_SINGLE_LIMIT THEN
            \E r \in SearchResponses :
                LET ex == extract_canonical_ids_from_search_response(r.body)
                IN  /\ resp' = r
                    /\ requests' = Append(requests,
                           SearchRequest("last_resort", "", "limit", LAST_RESORT_LIMIT, 0))
                    /\ heard' = <<[conv |-> Len(Conventions) + 1, resp |-> r]>>
                    /\ IF LastResortUsable(r, collected) THEN
                            /\ collected' = ex.out
                            /\ Return(ex.out, {})
                       ELSE
                            /\ Return(collected, {"may_be_partial"})
                            /\ UNCHANGED collected
       ELSE
            /\ Return(collected, {"may_be_partial"})
            /\ UNCHANGED <<resp, requests, heard, collected>>
    /\ UNCHANGED <<TOKEN, data, first_batch, items, conv, cursor, batchVars>>

\* a variant without the check of lines 319-321
NoIds_unchecked(ids) == FALSE

\* line 319: if not canonical_ids
NoIds(ids) == ids = <<>>

\* line 362: if not all_ideas
NoIdeas(ideas) == ideas = <<>>

\* line 324: if len(canonical_ids) >= SAFE_TOTAL_CAP
CapWarning(ids) == Len(ids) >= SAFE_TOTAL_CAP

\* lines 318-330: back in main with the identifiers; the frame of
\* fetch_canonical_ids_smart is gone
AfterFetch ==
    /\ pc = "returned"
    /\ IF NoIds(canonical_ids) THEN
            /\ Exit(0)
            /\ printed' = printed \cup {"no_canonical_ids"}
       ELSE
            /\ pc' = "batch"
            /\ printed' = printed \cup
                   (IF CapWarning(canonical_ids) THEN {"warning_safe_cap"} ELSE {})
            /\ UNCHANGED exitCode
    /\ data' = JNull
    /\ first_batch' = <<>>
    /\ collected' = <<>>
    /\ items' = <<>>
    /\ conv' = 0
    /\ cursor' = 0
    /\ heard' = <<>>
    /\ UNCHANGED <<TOKEN, requests, resp, canonical_ids, batchVars>>

\* a variant that skips a batch whose request met a transport error
BatchExitCode_skipping_transport_errors(r) ==
    IF r.none THEN 0
    ELSE IF r.status_code = 401 THEN 7
    ELSE IF r.status_code /= 200 THEN 8
    ELSE IF ~r.parses THEN 9
    ELSE IF ~IsDict(r.body) /\ ~IsList(r.body) THEN 10
    ELSE 0

\* lines 333-356: the exit status a batch response ends the run with, 0 when
\* the loop goes on
BatchExitCode(r) ==
    IF r.none THEN 6
    ELSE IF r.status_code = 401 THEN 7
    ELSE IF r.status_code /= 200 THEN 8
    ELSE IF ~r.parses THEN 9
    ELSE IF ~IsDict(r.body) /\ ~IsList(r.body) THEN 10
    ELSE 0

\* lines 349-353: the records of one batch body
RecordsOf(body) ==
    IF IsDict(body) THEN SelectSeq(body.vals, IsDict)
    ELSE IF IsList(body) THEN SelectSeq(body.items, IsDict)
    ELSE <<>>

\* lines 330-359: one turn of the batch loop
BatchTurn ==
    /\ pc = "batch"
    /\ LET chunk == islice(canonical_ids, it, BATCH_SIZE) IN
        /\ chunk /= <<>>
        /\ it' = it + Len(chunk)
        /\ batchReqs' = Append(batchReqs, chunk)
        /\ \E r \in BatchResponses(chunk) :
            /\ resp' = r
            /\ IF BatchExitCode(r) /= 0 THEN
                    /\ Exit(BatchExitCode(r))
                    /\ UNCHANGED <<all_ideas, batchResps>>
               ELSE
                    /\ all_ideas' = all_ideas \o RecordsOf(r.body)
                    /\ batchResps' = Append(batchResps, r.body)
                    /\ UNCHANGED <<pc, exitCode>>
    /\ UNCHANGED <<TOKEN, printed, requests, proberVars, canonical_ids, df, written>>

\* lines 361-378: the iterator is exhausted; flatten and write
Finish ==
    /\ pc = "batch"
    /\ islice(canonical_ids, it, BATCH_SIZE) = <<>>
    /\ IF NoIdeas(all_ideas) THEN
            /\ Exit(0)
            /\ printed' = printed \cup {"no_ideas"}
            /\ UNCHANGED <<df, written>>
       ELSE
            /\ df' = normalize_ideas(all_ideas)
            /\ written' = {"ideas.csv", "ideas.xlsx"}
            /\ printed' = printed \cup {"done"}
            /\ Exit(0)
    /\ UNCHANGED <<TOKEN, requests, resp, proberVars, canonical_ids, it, all_ideas,
                   batchReqs, batchResps>>

Next ==
    \/ Main
    \/ FirstProbe
    \/ OffsetPagination
    \/ PagePagination
    \/ LastResort
    \/ AfterFetch
    \/ BatchTurn
    \/ Finish

Spec == Init /\ [][Next]_vars

----------------------------------------------------------------------------
(* The batch loop alone: main from line 318 on, entered with the list a    *)
(* complete first probe returned.  With the source's MAX_SINGLE_LIMIT of   *)
(* 2000 a first probe returns any list of up to 1999 identifiers at once;  *)
(* here the list has up to MaxTargets distinct identifiers, so that three  *)
(* batches of sizes 2, 2, 1 occur.                                         *)

Targets(o, k) == [i \in 1..k |-> IdName[((o + i - 1) % MaxTargets) + 1]]

BatchInputs == {Targets(o, k) : o \in 0..(MaxTargets - 1), k \in 0..MaxTargets}

InitBatch ==
    \E ids \in BatchInputs :
        /\ TOKEN = "eyJraWQi"
        /\ pc = "returned"
        /\ exitCode = 0
        /\ printed = {"assuming_complete"}
        /\ requests = <<SearchRequest("probe", "", "limit", MAX_SINGLE_LIMIT, 0)>>
        /\ resp = Http(200, TRUE, ListEnvelope(ids))
        /\ data = ListEnvelope(ids)
        /\ first_batch = ids
        /\ collected = ids
        /\ items = <<>>
        /\ conv = 0
        /\ cursor = 0
        /\ heard = <<>>
        /\ canonical_ids = dedupe_preserve_order(ids)
        /\ it = 0
        /\ all_ideas = <<>>
        /\ batchReqs = <<>>
        /\ batchResps = <<>>
        /\ df = NoTable
        /\ written = {}

NextBatch ==
    \/ AfterFetch
    \/ BatchTurn
    \/ Finish

SpecBatch == InitBatch /\ [][NextBatch]_vars

----------------------------------------------------------------------------
(* The identifier extractor alone: line 185 applied to any parsed payload. *)
(* data is the payload resp.json() returned, first_batch what the          *)
(* extractor makes of it.                                                  *)

Scalars == {JNull, JStr("kb-1"), JStr(" "), JNum(7), JBool(TRUE)}

\* a scalar, null, sequence or mapping, as it may stand in any position
Values ==
    Scalars \cup {JList(<<>>), EmptyDict, JList(<<JStr("kb-2")>>),
                  JDict(<<"id">>, <<JStr("kb-3")>>)}

TopLevelKeys == {"ticketCanonicalId", "canonicalId", "id"}

HitKeys == {"ticketCanonicalId", "canonicalId"}

\* an element of a top-level sequence
TopElements == Values \cup {JDict(<<k>>, <<v>>) : k \in TopLevelKeys, v \in Values}

\* an element of hits.hits
HitElements ==
    Values
        \cup {JDict(<<k>>, <<v>>) : k \in HitKeys, v \in Values}
        \cup {JDict(<<"_source">>, <<v>>) : v \in Values}
        \cup {JDict(<<"_source">>, <<JDict(<<k>>, <<v>>)>>) : k \in HitKeys, v \in Values}

HitsOf(v) == JDict(<<"hits">>, <<v>>)

\* an element with two of the known fields, the first holding any scalar
TwoFieldElements ==
    {JDict(<<"ticketCanonicalId", "canonicalId">>, <<v, JStr("kb-2")>>) : v \in Scalars}

\* a hit with "_source" and an identifier field of its own
TwoFieldHits ==
    {JDict(<<"_source", "canonicalId">>,
           <<JDict(<<"ticketCanonicalId">>, <<v>>), JStr("kb-2")>>) : v \in Scalars}

ExtractInputs ==
    Values
        \cup {JList(<<e>>) : e \in TwoFieldElements}
        \cup {HitsOf(HitsOf(JList(<<h>>))) : h \in TwoFieldElements \cup TwoFieldHits}
        \cup {JList(<<e>>) : e \in TopElements}
        \cup {JList(<<JDict(<<"id">>, <<JStr("kb-3")>>), e>>) : e \in TopElements}
        \cup {HitsOf(v) : v \in Values}
        \cup {HitsOf(HitsOf(v)) : v \in Values}
        \cup {HitsOf(HitsOf(JList(<<h>>))) : h \in HitElements}
        \cup {HitsOf(HitsOf(JList(<<JDict(<<"canonicalId">>, <<JStr("kb-3")>>), h>>))) :
                h \in HitElements}

InitExtract ==
    /\ TOKEN = "eyJraWQi"
    /\ pc = "extract"
    /\ exitCode = 0
    /\ printed = {}
    /\ requests = <<>>
    /\ resp = NoResponse
    /\ data \in ExtractInputs
    /\ first_batch = <<>>
    /\ collected = <<>>
    /\ items = <<>>
    /\ conv = 0
    /\ cursor = 0
    /\ heard = <<>>
    /\ canonical_ids = <<>>
    /\ it = 0
    /\ all_ideas = <<>>
    /\ batchReqs = <<>>
    /\ batchResps = <<>>
    /\ df = NoTable
    /\ written = {}

\* line 185: first_batch = extract_canonical_ids_from_search_response(data)
ExtractCall ==
    /\ pc = "extract"
    /\ LET ex == extract_canonical_ids_from_search_response(data) IN
        IF ex.raised THEN Crash /\ UNCHANGED first_batch
        ELSE pc' = "extracted" /\ first_batch' = ex.out /\ UNCHANGED exitCode
    /\ UNCHANGED <<TOKEN, printed, requests, resp, data, collected, items, conv, cursor,
                   heard, canonical_ids, batchVars>>

NextExtract == ExtractCall

SpecExtract == InitExtract /\ [][NextExtract]_vars

----------------------------------------------------------------------------
(* The deduplicator alone: dedupe_preserve_order applied to any list, and  *)
(* once more to its own result.  collected is the argument, canonical_ids  *)
(* the result, items the result of the second application.                 *)

\* identifiers that differ in case only, and one that differs otherwise
DedupeIds == {"kb-1", "KB-1", "kb-2"}

DedupeInputs == UNION {[1..n -> DedupeIds] : n \in 0..MaxSeq}

InitDedupe ==
    /\ TOKEN = "eyJraWQi"
    /\ pc = "dedupe"
    /\ exitCode = 0
    /\ printed = {}
    /\ requests = <<>>
    /\ resp = NoResponse
    /\ data = JNull
    /\ first_batch = <<>>
    /\ collected \in DedupeInputs
    /\ items = <<>>
    /\ conv = 0
    /\ cursor = 0
    /\ heard = <<>>
    /\ canonical_ids = <<>>
    /\ it = 0
    /\ all_ideas = <<>>
    /\ batchReqs = <<>>
    /\ batchResps = <<>>
    /\ df = NoTable
    /\ written = {}

\* lines 192, 232, 267, 283, 288: return dedupe_preserve_order(collected)
DedupeCall ==
    /\ pc = "dedupe"
    /\ canonical_ids' = dedupe_preserve_order(collected)
    /\ pc' = "deduped"
    /\ UNCHANGED <<TOKEN, exitCode, printed, requests, resp, data, first_batch, collected,
                   items, conv, cursor, heard, batchVars>>

\* dedupe_preserve_order applied to its own result
DedupeAgain ==
    /\ pc = "deduped"
    /\ items' = dedupe_preserve_order(canonical_ids)
    /\ pc' = "deduped_twice"
    /\ UNCHANGED <<TOKEN, exitCode, printed, requests, resp, data, first_batch, collected,
                   conv, cursor, heard, canonical_ids, batchVars>>

NextDedupe == DedupeCall \/ DedupeAgain

SpecDedupe == InitDedupe /\ [][NextDedupe]_vars

----------------------------------------------------------------------------
(* The flattener alone: line 367 applied to any list of records.           *)
(* all_ideas is the argument, df the table normalize_ideas returns.        *)

\* records as the batch endpoint may return them: scalars, null, nested
\* mappings (one and two levels), sequences of scalars and of mappings, at
\* top level and inside a mapping
Records ==
    { JDict(<<"id", "meta">>, <<JStr("a"), JDict(<<"x">>, <<JNum(1)>>)>>),
      JDict(<<"id", "tags">>, <<JStr("b"), JList(<<JStr("p"), JStr("q")>>)>>),
      JDict(<<"title", "id", "history">>,
            <<JStr("t"), JStr("c"), JList(<<JDict(<<"by">>, <<JStr("u")>>)>>)>>),
      JDict(<<"canonicalId", "creator", "status">>,
            <<JStr("k"), JDict(<<"name">>, <<JStr("n")>>), JNull>>),
      JDict(<<"id", "meta">>,
            <<JStr("d"), JDict(<<"tags", "x">>, <<JList(<<JStr("p"), JStr("q")>>), JNum(2)>>)>>),
      JDict(<<"type", "meta", "tags">>,
            <<JStr("kickbox"), JDict(<<"a">>, <<JDict(<<"b">>, <<JBool(TRUE)>>)>>),
              JList(<<>>)>>) }

NormalizeInputs == UNION {[1..n -> Records] : n \in 0..MaxRecords}

InitNormalize ==
    /\ TOKEN = "eyJraWQi"
    /\ pc = "normalize"
    /\ exitCode = 0
    /\ printed = {}
    /\ requests = <<>>
    /\ resp = NoResponse
    /\ data = JNull
    /\ first_batch = <<>>
    /\ collected = <<>>
    /\ items = <<>>
    /\ conv = 0
    /\ cursor = 0
    /\ heard = <<>>
    /\ canonical_ids = <<>>
    /\ it = 0
    /\ all_ideas \in NormalizeInputs
    /\ batchReqs = <<>>
    /\ batchResps = <<>>
    /\ df = NoTable
    /\ written = {}

\* line 367: df = normalize_ideas(all_ideas)
NormalizeCall ==
    /\ pc = "normalize"
    /\ df' = normalize_ideas(all_ideas)
    /\ pc' = "normalized"
    /\ UNCHANGED <<TOKEN, exitCode, printed, requests, resp, proberVars, canonical_ids, it,
                   all_ideas, batchReqs, batchResps, written>>

NextNormalize == NormalizeCall

SpecNormalize == InitNormalize /\ [][NextNormalize]_vars

----------------------------------------------------------------------------
(* The prober alone: one call of fetch_canonical_ids_smart (line 318), from *)
(* its first statement to its return or to the end of the run.  The call   *)
(* is sequential code that blocks only in try_post, whose timeout (line    *)
(* 112) bounds the wait: a step that can be taken is taken.                *)

InitProber ==
    /\ TOKEN = "eyJraWQi"
    /\ pc = "probe"
    /\ exitCode = 0
    /\ printed = {}
    /\ requests = <<>>
    /\ resp = NoResponse
    /\ data = JNull
    /\ first_batch = <<>>
    /\ collected = <<>>
    /\ items = <<>>
    /\ conv = 0
    /\ cursor = 0
    /\ heard = <<>>
    /\ canonical_ids = <<>>
    /\ it = 0
    /\ all_ideas = <<>>
    /\ batchReqs = <<>>
    /\ batchResps = <<>>
    /\ df = NoTable
    /\ written = {}

NextProber ==
    \/ FirstProbe
    \/ OffsetPagination
    \/ PagePagination
    \/ LastResort

SpecProber == InitProber /\ [][NextProber]_vars /\ WF_vars(NextProber)

----------------------------------------------------------------------------
(* What the claims are stated with *)

IdSet(seq) == {seq[i] : i \in 1..Len(seq)}

NoDuplicates(seq) == \A i, j \in 1..Len(seq) : i /= j => seq[i] /= seq[j]

FirstPos(seq, x) == CHOOSE i \in 1..Len(seq) : seq[i] = x /\ \A j \in 1..(i - 1) : seq[j] /= x

\* out lists the identifiers of seq, each once, in the order they first occur
FirstSeen(out, seq) ==
    /\ IdSet(out) = IdSet(seq)
    /\ NoDuplicates(out)
    /\ \A i, j \in 1..Len(out) : i < j => FirstPos(seq, out[i]) < FirstPos(seq, out[j])

\* a response that arrived with status 200 and a body that parses
IsOk(r) == ~r.none /\ r.status_code = 200 /\ r.parses

\* the identifiers a response carries
IdsOf(r) == extract_canonical_ids_from_search_response(r.body).out

Terminated == pc \in {"exited", "crashed"}

\* the prober is inside or at the end of its call
InProber == pc \in {"paginate", "last_resort", "returned"}

----------------------------------------------------------------------------
\* C1: when the first search response yields strictly fewer identifiers than
\* MAX_SINGLE_LIMIT, the prober returns at once: the run issues exactly one
\* search request, and the returned list holds exactly the identifiers of
\* that response (each once, in the order they first occur in it).
C1_ShortProbeReturnsAtOnce ==
    /\ (InProber /\ Len(IdsOf(resp)) < MAX_SINGLE_LIMIT /\ Len(requests) = 1) =>
            /\ pc = "returned"
            /\ FirstSeen(canonical_ids, IdsOf(resp))
    /\ (InProber /\ Len(first_batch) < MAX_SINGLE_LIMIT) => Len(requests) = 1
    /\ ("assuming_complete" \in printed) => Len(requests) = 1

C1_Witness ==
    /\ pc = "batch"
    /\ "assuming_complete" \in printed
    /\ Len(requests) = 1
    /\ canonical_ids = <<"kb-2", "kb-3">>

\* C2: when the first probe returns exactly MAX_SINGLE_LIMIT identifiers and
\* the loop of the first offset convention receives two non-empty pages and
\* then an empty one, the prober returns the identifiers of the probe and of
\* both pages, each once, in first-seen order, and the only search requests
\* of the run are the probe and three requests with the key "offset".
C2_OffsetServerHonoured ==
    (/\ InProber
     /\ Len(first_batch) = MAX_SINGLE_LIMIT
     /\ Len(heard) = 3
     /\ \A i \in 1..3 : heard[i].conv = 1 /\ IsOk(heard[i].resp)
     /\ IdsOf(heard[1].resp) /= <<>>
     /\ IdsOf(heard[2].resp) /= <<>>
     /\ IdsOf(heard[3].resp) = <<>>)
    =>  /\ pc = "returned"
        /\ FirstSeen(canonical_ids,
                     first_batch \o IdsOf(heard[1].resp) \o IdsOf(heard[2].resp))
        /\ Len(requests) = 4
        /\ requests[1].site = "probe"
        /\ \A i \in 2..4 : requests[i].site = "page" /\ requests[i].pageKey = "offset"

C2_Witness ==
    /\ pc = "returned"
    /\ Len(first_batch) = MAX_SINGLE_LIMIT
    /\ Len(heard) = 3
    /\ \A i \in 1..3 : heard[i].conv = 1 /\ IsOk(heard[i].resp)
    /\ IdsOf(heard[1].resp) = <<"kb-1", "kb-2">>
    /\ IdsOf(heard[2].resp) = <<"kb-3", "kb-1">>
    /\ IdsOf(heard[3].resp) = <<>>
    /\ first_batch = <<"kb-1", "kb-2", "kb-3">>
    /\ canonical_ids = <<"kb-1", "kb-2", "kb-3">>

\* C3: a response with status 401, to whatever request of the run, ends the
\* run at once with the authorization-failure exit (3 from the search
\* endpoint, 7 from the batch endpoint).
C3_AuthFailureAlwaysFatal ==
    (~resp.none /\ resp.status_code = 401) => (pc = "exited" /\ exitCode \in {3, 7})

\* the latest batch request failed: no response, a status other than 200, or
\* a body that does not parse
BatchRequestFailed ==
    batchReqs /= <<>> /\ (resp.none \/ resp.status_code /= 200 \/ ~resp.parses)

\* C4: when a batch-fetch request ends in a transport failure, a non-success
\* status or an unparseable body, the run is over with a non-zero exit
\* status: no step of the run is left to take (no later batch request),
\* normalize_ideas has built no table and no file is written, whatever the
\* earlier batches returned.
C4_BatchFailureAborts ==
    BatchRequestFailed =>
        /\ pc = "exited"
        /\ exitCode \in {6, 7, 8, 9}
        /\ ~ENABLED NextBatch
        /\ df = NoTable
        /\ written = {}
        /\ "done" \notin printed

C4_Witness ==
    /\ Len(canonical_ids) = 5
    /\ Len(batchReqs) = 2
    /\ resp.none
    /\ Len(all_ideas) = 2
    /\ pc = "exited"
    /\ exitCode = 6
    /\ written = {}

Ceil(n, c) == (n + c - 1) \div c

\* the i-th slice of seq in slices of c
Slice(seq, i, c) == SubSeq(seq, (i - 1) * c + 1, Min(i * c, Len(seq)))

\* the entries of a mapping or sequence body that are records, in its order
RecordEntries(body) ==
    LET entries == IF body.t = "dict" THEN body.vals ELSE body.items
    IN  SelectSeq(entries, LAMBDA e : e.t = "dict")

RECURSIVE RecordsOfAll(_)
RecordsOfAll(bodies) ==
    IF bodies = <<>> THEN <<>>
    ELSE RecordEntries(Head(bodies)) \o RecordsOfAll(Tail(bodies))

RECURSIVE Concat(_)
Concat(seqs) == IF seqs = <<>> THEN <<>> ELSE Head(seqs) \o Concat(Tail(seqs))

\* the batch loop ran to its end: every response was usable
BatchLoopDone == pc = "exited" /\ exitCode = 0 /\ canonical_ids /= <<>>

\* C5: the i-th batch request carries the i-th slice of BATCH_SIZE identifiers
\* of the list (the last slice what is left, never empty); a run whose
\* batches all succeed issues exactly ceil(n / BATCH_SIZE) requests, which
\* together send every identifier once, and its records are the record
\* entries of the responses (the values of a mapping, the items of a
\* sequence), concatenated in request order.
C5_BatchesAreSlices ==
    /\ \A i \in 1..Len(batchReqs) :
            /\ batchReqs[i] = Slice(canonical_ids, i, BATCH_SIZE)
            /\ batchReqs[i] /= <<>>
    /\ BatchLoopDone =>
            /\ Len(batchReqs) = Ceil(Len(canonical_ids), BATCH_SIZE)
            /\ Concat(batchReqs) = canonical_ids
            /\ all_ideas = RecordsOfAll(batchResps)

C5_Witness ==
    /\ BatchLoopDone
    /\ Len(canonical_ids) = 5
    /\ Len(batchReqs) = 3
    /\ Len(batchReqs[3]) = 1
    /\ batchResps[1].t = "dict"
    /\ batchResps[2].t = "list"
    /\ Len(all_ideas) = 5
    /\ written /= {}

\* the response to the first probe, once it is in
ProbeAnswered == Len(requests) = 1 /\ batchReqs = <<>> /\ pc /= "probe"

\* C6: each fatal condition has an exit status of its own, none of them 0: on
\* the first probe 2 for a transport failure, 3 for status 401, 4 for another
\* status than 200, 5 for an unparseable body; on a batch fetch 6, 7, 8, 9 for
\* the same four and 10 for a body that is neither a mapping nor a sequence.
\* A run that ended with one of them takes no further step.
C6_DistinctExitCodes ==
    /\ ProbeAnswered =>
            /\ resp.none => (pc = "exited" /\ exitCode = 2)
            /\ (~resp.none /\ resp.status_code = 401) => (pc = "exited" /\ exitCode = 3)
            /\ (~resp.none /\ resp.status_code \notin {200, 401}) =>
                    (pc = "exited" /\ exitCode = 4)
            /\ (~resp.none /\ resp.status_code = 200 /\ ~resp.parses) =>
                    (pc = "exited" /\ exitCode = 5)
    /\ batchReqs /= <<>> =>
            /\ resp.none => (pc = "exited" /\ exitCode = 6)
            /\ (~resp.none /\ resp.status_code = 401) => (pc = "exited" /\ exitCode = 7)
            /\ (~resp.none /\ resp.status_code \notin {200, 401}) =>
                    (pc = "exited" /\ exitCode = 8)
            /\ (~resp.none /\ resp.status_code = 200 /\ ~resp.parses) =>
                    (pc = "exited" /\ exitCode = 9)
            /\ (IsOk(resp) /\ resp.body.t \notin {"dict", "list"}) =>
                    (pc = "exited" /\ exitCode = 10)
    /\ (pc = "exited" /\ exitCode /= 0) => ~ENABLED Next

C6_Witness ==
    /\ pc = "exited"
    /\ exitCode = 10
    /\ Len(batchReqs) = 2
    /\ Len(requests) > 1

\* the table was built and both files were written
TableWritten ==
    /\ written = {"ideas.csv", "ideas.xlsx"}
    /\ df /= NoTable
    /\ Len(df.rows) = Len(all_ideas)

FoundNothing ==
    \/ /\ canonical_ids = <<>>
       /\ "no_canonical_ids" \in printed
       /\ batchReqs = <<>>
    \/ /\ canonical_ids /= <<>>
       /\ all_ideas = <<>>
       /\ "no_ideas" \in printed
       /\ Len(batchReqs) = Ceil(Len(canonical_ids), BATCH_SIZE)

C8_CapIsHard ==
    /\ Len(items) <= SAFE_TOTAL_CAP
    /\ Len(collected) <= SAFE_TOTAL_CAP
    /\ Len(canonical_ids) <= SAFE_TOTAL_CAP

LastHeard == heard[Len(heard)]

\* the prober returned from a pagination loop whose last page was full: a
\* short or empty page ends the loop by itself, after a full one the loop
\* asked for no further page because the cap check of its next turn stopped it
CapStopped ==
    /\ pc = "returned"
    /\ heard /= <<>>
    /\ LastHeard.conv \in 1..Len(Conventions)
    /\ IsOk(LastHeard.resp)
    /\ Len(IdsOf(LastHeard.resp)) >= PAGINATION_LIMIT

\* the prober returned what the first probe found, after a full first probe:
\* no convention and no last resort extended it
ExhaustedReturn ==
    /\ pc = "returned"
    /\ Len(first_batch) >= MAX_SINGLE_LIMIT
    /\ collected = first_batch

PartialWarnings == {"reached_safe_cap", "may_be_partial", "warning_safe_cap"}

SupportedEnvelope(v) ==
    \/ v.t = "list"
    \/ /\ v.t = "dict"
       /\ Get(v, "hits", JNull).t = "dict"
       /\ Get(Get(v, "hits", JNull), "hits", JNull).t = "list"

\* C10: the extractor returns a sequence for every parsed payload, the empty
\* one for a payload in neither supported envelope; it never raises.
C10_ExtractorNeverFails ==
    /\ pc /= "crashed"
    /\ (pc = "extracted" /\ ~SupportedEnvelope(data)) => first_batch = <<>>

\* a value that counts as an identifier: a string that is not blank
IsIdentifier(v) == v.t = "str" /\ Strip(v.s) /= ""

\* the first of the values that is an identifier, as a list of one, or none
RECURSIVE FirstIdentifier(_)
FirstIdentifier(vals) ==
    IF vals = <<>> THEN <<>>
    ELSE IF IsIdentifier(Head(vals)) THEN <<Head(vals).s>>
    ELSE FirstIdentifier(Tail(vals))

\* the values under the known field names, in the order of precedence
KnownFields(el, keys) == [i \in 1..Len(keys) |-> Get(el, keys[i], JNull)]

\* the identifier an element of a top-level sequence carries
CarriedByElement(el) ==
    IF el.t /= "dict" THEN <<>>
    ELSE FirstIdentifier(KnownFields(el, <<"ticketCanonicalId", "canonicalId", "id">>))

\* the identifier a hit carries: under "_source" first, else its own
CarriedByHit(h) ==
    IF h.t /= "dict" THEN <<>>
    ELSE LET src == Get(h, "_source", JNull)
             nested == IF src.t = "dict"
                       THEN KnownFields(src, <<"ticketCanonicalId", "canonicalId">>)
                       ELSE <<>>
         IN  FirstIdentifier(nested \o KnownFields(h, <<"ticketCanonicalId", "canonicalId">>))

\* the identifiers present in a payload of a supported envelope, in
\* encounter order
IdentifiersPresent(v) ==
    IF v.t = "list" THEN Concat([i \in 1..Len(v.items) |-> CarriedByElement(v.items[i])])
    ELSE LET hits == Get(Get(v, "hits", JNull), "hits", JNull).items
         IN  Concat([i \in 1..Len(hits) |-> CarriedByHit(hits[i])])

\* C11: for a payload in a supported envelope, what the extractor returns is
\* the list of the identifiers present: one entry, in encounter order, for
\* each element that carries an identifier under a known field name, and
\* nothing else.
C11_ExtractsIdentifiersPresent ==
    (pc = "extracted" /\ SupportedEnvelope(data)) => first_batch = IdentifiersPresent(data)

\* out is seq with some entries left out
RECURSIVE IsSubsequence(_, _)
IsSubsequence(out, seq) ==
    IF out = <<>> THEN TRUE
    ELSE IF seq = <<>> THEN FALSE
    ELSE IF Head(out) = Head(seq) THEN IsSubsequence(Tail(out), Tail(seq))
    ELSE IsSubsequence(out, Tail(seq))

\* C12: dedupe_preserve_order(s) holds the distinct identifiers of s, each
\* once, in the order of their first occurrence in s, and is a subsequence
\* of s; applied to its own result it returns that result.  Identifiers
\* that differ in case are different identifiers.
C12_DedupeFirstSeenIdempotent ==
    /\ pc \in {"deduped", "deduped_twice"} =>
            /\ FirstSeen(canonical_ids, collected)
            /\ IsSubsequence(canonical_ids, collected)
    /\ pc = "deduped_twice" => items = canonical_ids

C12_Witness ==
    /\ pc = "deduped_twice"
    /\ collected = <<"kb-2", "kb-1", "kb-2", "KB-1">>
    /\ canonical_ids = <<"kb-2", "kb-1", "KB-1">>
    /\ items = canonical_ids

\* the column names flattening one record produces: the path of field names
\* to each value that is not a mapping, joined with dots
RECURSIVE Paths(_, _)
Paths(d, prefix) ==
    UNION {IF d.vals[i].t = "dict"
           THEN Paths(d.vals[i], prefix \o d.keys[i] \o ".")
           ELSE {prefix \o d.keys[i]} : i \in 1..Len(d.keys)}

AllPaths(records) == UNION {Paths(records[i], "") : i \in 1..Len(records)}

PreferredPos(k) == CHOOSE i \in 1..Len(preferred) : preferred[i] = k

\* columns are the preferred names in their fixed order, then the other
\* names in lexicographic order
SchemaOrder(columns) ==
    \A i, j \in 1..Len(columns) : i < j =>
        LET a == columns[i]
            b == columns[j]
        IN  IF InSeq(a, preferred)
            THEN InSeq(b, preferred) => PreferredPos(a) < PreferredPos(b)
            ELSE ~InSeq(b, preferred) /\ Rank(a) < Rank(b)

\* the value at a dotted path of a record; Absent when the record has none
Absent == [t |-> "absent"]

RECURSIVE AtPath(_, _, _)
AtPath(d, prefix, path) ==
    LET here == {i \in 1..Len(d.keys) : prefix \o d.keys[i] = path /\ d.vals[i].t /= "dict"}
        below == {i \in 1..Len(d.keys) :
                    d.vals[i].t = "dict" /\ path \in Paths(d.vals[i], prefix \o d.keys[i] \o ".")}
    IN  IF here /= {} THEN d.vals[CHOOSE i \in here : TRUE]
        ELSE IF below /= {}
             THEN LET i == CHOOSE i \in below : TRUE
                  IN  AtPath(d.vals[i], prefix \o d.keys[i] \o ".", path)
        ELSE Absent

\* a row has exactly the columns, in their order
RowHasSchema(row, columns) == row.keys = columns /\ Len(row.vals) = Len(columns)

\* C13: the columns of the table are, without duplicates, the column names
\* flattening produces for any of the records, the preferred names first in
\* their fixed order and the others after them in lexicographic order; the
\* table has one row per record in input order, each with exactly these
\* columns in this order, holding "" where the record produced no such
\* column.  The records {id: a, meta: {x: 1}} and {id: b, tags: [p, q]}
\* give the columns id, meta.x, tags and the rows (a, 1, "") and
\* (b, "", "p, q").
C13_SchemaAndRows ==
    pc = "normalized" =>
        /\ NoDuplicates(df.columns)
        /\ IdSet(df.columns) = AllPaths(all_ideas)
        /\ SchemaOrder(df.columns)
        /\ Len(df.rows) = Len(all_ideas)
        /\ \A r \in 1..Len(df.rows) :
                /\ all_ideas /= <<>> => RowHasSchema(df.rows[r], df.columns)
                /\ \A c \in 1..Len(df.columns) :
                        LET v == AtPath(all_ideas[r], "", df.columns[c]) IN
                        /\ v = Absent <=> df.columns[c] \notin Paths(all_ideas[r], "")
                        /\ v = Absent => df.rows[r].vals[c] = JStr("")
                        /\ v.t \in {"null", "str", "num", "bool"} => df.rows[r].vals[c] = v
        /\ (all_ideas = <<JDict(<<"id", "meta">>, <<JStr("a"), JDict(<<"x">>, <<JNum(1)>>)>>),
                          JDict(<<"id", "tags">>, <<JStr("b"), JList(<<JStr("p"), JStr("q")>>)>>)>>)
            => /\ df.columns = <<"id", "meta.x", "tags">>
               /\ df.rows[1].vals = <<JStr("a"), JNum(1), JStr("")>>
               /\ df.rows[2].vals = <<JStr("b"), JStr(""), JStr("p, q")>>

C13_Witness ==
    /\ pc = "normalized"
    /\ Len(all_ideas) = 3
    /\ df.columns = <<"id", "canonicalId", "status", "creator.name", "meta.x", "tags">>
    /\ df.rows[3].vals = <<JStr("b"), JStr(""), JStr(""), JStr(""), JStr(""), JStr("p, q")>>
    /\ df.rows[1].vals[3] = JNull

IsScalar(v) == v.t \in {"null", "str", "num", "bool"}

\* C14: every cell of every row normalize_ideas produces is a scalar: no
\* cell holds a mapping or a sequence, wherever in the record the value sat.
C14_CellsAreScalars ==
    pc = "normalized" =>
        \A r \in 1..Len(df.rows) : \A c \in 1..Len(df.rows[r].vals) :
            IsScalar(df.rows[r].vals[c])

\* the latest response of a pagination loop is a failed page request
FollowUpFailed ==
    /\ heard /= <<>>
    /\ LastHeard.conv \in 1..Len(Conventions)
    /\ PageFailed(LastHeard.resp)

\* C15: a failed page request of a pagination convention (no response, a
\* status other than 200, a body that does not parse) does not end the run
\* and does not make the prober return: the convention is not accepted, and
\* the prober is at the next convention, or after the last convention at the
\* last-resort request.
C15_PageFailureMovesOn ==
    FollowUpFailed =>
        IF LastHeard.conv < Len(Conventions)
        THEN pc = "paginate" /\ conv = LastHeard.conv + 1
        ELSE pc = "last_resort"

\* the prober returned through a pagination convention it accepted
AcceptedReturn ==
    /\ pc = "returned"
    /\ heard /= <<>>
    /\ LastHeard.conv \in 1..Len(Conventions)

\* C16: a return through an accepted convention brings at least one
\* identifier that the first probe did not return.
C16_AcceptedExtendsProbe ==
    AcceptedReturn => IdSet(canonical_ids) \ IdSet(first_batch) /= {}

\* what the running loop held in items before it asked for its i-th page
ItemsBefore(i) ==
    first_batch \o Concat([j \in 1..(i - 1) |-> IdsOf(heard[j].resp)])

\* the i-th response of the running loop was followed by a further request
\* of the same convention
FollowedByRequest(i) ==
    /\ i < Len(heard)
    /\ heard[i].conv \in 1..Len(Conventions)
    /\ heard[i + 1].conv = heard[i].conv

\* a page shorter than the page size is the last of its convention
C17_ShortPageStops ==
    \A i \in 1..Len(heard) : FollowedByRequest(i) =>
        IsOk(heard[i].resp) /\ Len(IdsOf(heard[i].resp)) >= PAGINATION_LIMIT

\* no page is requested once the cap is reached
C17_CapStops ==
    \A i \in 1..Len(heard) : FollowedByRequest(i) =>
        Len(ItemsBefore(i + 1)) < SAFE_TOTAL_CAP

\* a page that brought nothing new is the last of its convention
C17_NothingNewStops ==
    \A i \in 1..Len(heard) : FollowedByRequest(i) =>
        IdSet(IdsOf(heard[i].resp)) \ IdSet(ItemsBefore(i)) /= {}

\* C17: within one pagination convention no further page is requested after
\* a page shorter than the page size, after a page that brought no
\* identifier that was not collected already, or once the number of
\* collected identifiers has reached SAFE_TOTAL_CAP.
C17_NoPageAfterStop ==
    C17_ShortPageStops /\ C17_NothingNewStops /\ C17_CapStops

\* the conventions in the order of the claim: the page key, the size key,
\* and for a page-based convention the page it starts from
ClaimedOrder ==
    << [pageKey |-> "offset", sizeKey |-> "limit", paged |-> FALSE, page |-> 0],
       [pageKey |-> "start",  sizeKey |-> "limit", paged |-> FALSE, page |-> 0],
       [pageKey |-> "from",   sizeKey |-> "limit", paged |-> FALSE, page |-> 0],
       [pageKey |-> "page",   sizeKey |-> "size",  paged |-> TRUE,  page |-> 0],
       [pageKey |-> "page",   sizeKey |-> "size",  paged |-> TRUE,  page |-> 1],
       [pageKey |-> "page",   sizeKey |-> "limit", paged |-> TRUE,  page |-> 0],
       [pageKey |-> "page",   sizeKey |-> "limit", paged |-> TRUE,  page |-> 1] >>

\* the value the first request of the c-th convention carries under its
\* page key: the length of the first probe as the offset, or the start page
FirstValue(c) ==
    IF ClaimedOrder[c].paged THEN ClaimedOrder[c].page ELSE Len(first_batch)

\* the request carries the keys of the c-th convention
Matches(req, c) ==
    /\ req.site = "page"
    /\ req.pageKey = ClaimedOrder[c].pageKey
    /\ req.sizeKey = ClaimedOrder[c].sizeKey
    /\ req.size = PAGINATION_LIMIT

\* where a request stands in the order: 0 for the probe, the first
\* convention with its keys for a page request, last for the last resort
Stage(req) ==
    CASE req.site = "probe" -> 0
      [] req.site = "last_resort" -> Len(ClaimedOrder) + 1
      [] OTHER -> CHOOSE c \in 1..Len(ClaimedOrder) :
                    Matches(req, c) /\ \A b \in 1..(c - 1) : ~Matches(req, b)

\* the c-th convention was started before the j-th request
StartedBefore(c, j) ==
    \E i \in 1..(j - 1) : Matches(requests[i], c) /\ requests[i].at = FirstValue(c)

ProberFrame == pc \in {"paginate", "last_resort", "returned", "crashed"}

\* the request log only grows, and every state in which a request is the
\* latest is checked: what holds of the latest request in every state holds
\* of every request of every run
RequestsInOrder ==
    LET n == Len(requests) IN
    /\ n >= 1 =>
            /\ requests[n].site = "probe" <=> n = 1
            /\ requests[n].site = "page" => \E c \in 1..Len(ClaimedOrder) : Matches(requests[n], c)
            /\ requests[n].site = "last_resort" => requests[n].size = LAST_RESORT_LIMIT
    /\ n >= 2 =>
            /\ requests[n - 1].site /= "last_resort"
            /\ Stage(requests[n - 1]) <= Stage(requests[n])
    /\ (ProberFrame /\ n > 1) =>
            /\ \A c \in 1..Len(ClaimedOrder) :
                    c < Stage(requests[n]) => StartedBefore(c, n)
            /\ Len(first_batch) >= MAX_SINGLE_LIMIT
    /\ pc \in {"paginate", "last_resort"} => collected = first_batch
    /\ pc = "paginate" =>
            /\ n > 1 => Stage(requests[n]) <= conv
            /\ \A c \in 1..(conv - 1) : StartedBefore(c, n + 1)

\* a step taken after the prober has returned leaves the search requests as
\* they are
QuietAfterReturn ==
    pc \in {"returned", "batch", "exited", "crashed"} => UNCHANGED requests

\* C18: after a full first probe the conventions are tried one at a time in
\* the order offset, start, from, page with size (from page 0, then from
\* page 1), page with limit (from page 0, then from page 1): a request of a
\* convention comes only after every earlier convention was started and
\* ended unaccepted, the last-resort request only after all seven, and once
\* the prober has returned no search request is issued any more.
C18_ConventionsInOrder ==
    /\ []RequestsInOrder
    /\ [][QuietAfterReturn]_vars

C18_Witness ==
    /\ AcceptedReturn
    /\ LastHeard.conv = 6
    /\ Len(requests) = 8
    /\ requests[6].sizeKey = "size" /\ requests[6].at = 1
    /\ requests[7].sizeKey = "limit" /\ requests[7].at = 0
    /\ requests[8].sizeKey = "limit" /\ requests[8].at = 1

LastResortRequests == {i \in 1..Len(requests) : requests[i].site = "last_resort"}

\* the latest response is the one to the last-resort request
LastResortAnswered ==
    /\ heard /= <<>>
    /\ LastHeard.conv = Len(Conventions) + 1

\* the last-resort request failed, or brought no more identifiers than the
\* prober held
LastResortInVain ==
    /\ LastResortAnswered
    /\ \/ PageFailed(LastHeard.resp)
       \/ Len(IdsOf(LastHeard.resp)) <= Len(first_batch)

\* C19: the prober issues at most one last-resort request, only after no
\* convention was accepted, asking for more than MAX_SINGLE_LIMIT and for no
\* more than SAFE_TOTAL_CAP identifiers; when that request fails (no
\* response, a status other than 200, a body that does not parse) or brings
\* no more identifiers than the prober holds, the run goes on and the prober
\* returns the identifiers of the first probe, each once in first-seen order.
C19_LastResortFallsBack ==
    /\ Cardinality(LastResortRequests) <= 1
    /\ \A i \in LastResortRequests :
            /\ requests[i].size > MAX_SINGLE_LIMIT
            /\ requests[i].size <= SAFE_TOTAL_CAP
            /\ i = Len(requests)
    /\ LastResortAnswered => ~AcceptedReturn /\ Len(heard) = 1
    /\ LastResortInVain =>
            /\ pc = "returned"
            /\ exitCode = 0
            /\ collected = first_batch
            /\ FirstSeen(canonical_ids, first_batch)

C19_Witness ==
    /\ LastResortInVain
    /\ LastHeard.resp.status_code = 401
    /\ pc = "returned"
    /\ first_batch = <<"kb-1", "kb-2", "kb-3", "kb-1">>
    /\ canonical_ids = <<"kb-1", "kb-2", "kb-3">>

\* the responses the prober collected its list from, as one stream: the
\* last-resort response when that was taken, else the first probe followed
\* by the pages of the accepted convention
CollectedStream ==
    IF LastResortAnswered /\ ~LastResortInVain THEN IdsOf(LastHeard.resp)
    ELSE IF AcceptedReturn
         THEN first_batch \o Concat([i \in 1..Len(heard) |->
                                        IF IsOk(heard[i].resp) THEN IdsOf(heard[i].resp) ELSE <<>>])
    ELSE first_batch

\* C20: whichever way the prober returns, the list it returns holds no
\* identifier twice and lists the identifiers in the order they first occur
\* in the responses it collected; the batch requests of the run, taken
\* together, send no identifier twice.
C20_WorkingSetIsUnique ==
    /\ pc = "returned" =>
            /\ collected = CollectedStream
            /\ FirstSeen(canonical_ids, CollectedStream)
    /\ NoDuplicates(canonical_ids)
    /\ NoDuplicates(Concat(batchReqs))
    /\ \A i \in 1..Len(batchReqs) : IdSet(batchReqs[i]) \subseteq IdSet(canonical_ids)

C20_Witness ==
    /\ pc = "exited"
    /\ exitCode = 0
    /\ Len(requests) = 5
    /\ requests[5].pageKey = "start"
    /\ Concat(batchReqs) = <<"kb-2", "kb-3", "kb-1">>
    /\ written /= {}

\* C21: whichever way the prober returns, the list it returns holds every
\* identifier the first probe returned.
C21_ProbeIsKept ==
    pc = "returned" => IdSet(first_batch) \subseteq IdSet(canonical_ids)

\* the most requests one convention can issue: every page but the last of a
\* loop is full, and a request is made only below the cap
RequestsPerConvention == Ceil(SAFE_TOTAL_CAP - MAX_SINGLE_LIMIT, PAGINATION_LIMIT)

\* the call is over: the prober returned, or the run ended inside it
ProberDone == pc \in {"returned", "exited", "crashed"}

\* the probe is the first request and the last-resort request the last one
\* of a call, so there is at most one of each
BoundedRequests ==
    /\ C17_ShortPageStops
    /\ (heard /= <<>> /\ LastHeard.conv \in 1..Len(Conventions)) =>
            Len(heard) <= RequestsPerConvention
    /\ Len(requests) <= 1 + Len(Conventions) * RequestsPerConvention + 1
    /\ \A i \in 1..Len(requests) :
            /\ requests[i].site = "probe" <=> i = 1
            /\ requests[i].site = "last_resort" => (i = Len(requests) /\ ProberDone)

\* C22: whatever the server answers, a call of the prober comes to its end
\* (it returns, or the run ends in it), and until then it has issued one
\* probe, at most one last-resort request and, for each of the seven
\* conventions, at most ceil((SAFE_TOTAL_CAP - MAX_SINGLE_LIMIT) /
\* PAGINATION_LIMIT) page requests, a further page being requested only
\* after a full one.
C22_ProberTerminates ==
    /\ []BoundedRequests
    /\ <>ProberDone

C22_Witness ==
    /\ pc = "returned"
    /\ heard /= <<>>
    /\ LastHeard.conv = Len(Conventions)
    /\ Len(heard) = RequestsPerConvention
    /\ Len(requests) = Len(Conventions) + RequestsPerConvention
    /\ "reached_safe_cap" \in printed

====
